---- MODULE Spec2Model ----
(***************************************************************************)
(* Model of the BoardGameGeek cache server: the rate-limited request queue *)
(* of the API module (src/unnamed/part_001, imported as ./api.js) and the  *)
(* parts of the SQLite store (src/src/database.ts) it and the freshness    *)
(* check rely on.                                                          *)
(*                                                                         *)
(* Time is the wall clock in whole seconds, the granularity of SQLite's    *)
(* CURRENT_TIMESTAMP and datetime('now').  A processQueue activation is a  *)
(* coroutine: it runs synchronously up to an await, so each action below   *)
(* is one run-to-completion segment of the JavaScript event loop.          *)
(***************************************************************************)
EXTENDS Integers, Sequences, FiniteSets, TLC

(* ------------------------------ bounds -------------------------------- *)
\* number of fetchBggXml calls made in one run
MaxJobs == 2
\* submissions to an idle system happen up to this clock value
MaxTime == 2
\* the transport answers within this many seconds
MaxFetchTime == 1
\* age in seconds, at start-up, of the rows an earlier run left in api_requests
PreloadAge == 55
\* largest game id
MaxGameId == 1
\* number of clock jumps in the store specification
MaxStoreSteps == 3
\* largest play id
MaxPlayId == 1
\* longest list of items or plays in one upstream reply or one direct save
MaxItems == 1
\* number of exposed operations called
MaxOps == 2
\* longest hot list in one direct saveHotGames call
MaxHot == 3
\* longest list of plays in one upstream reply of the cascade specification
MaxCascade == 2

(* ------------------------- program constants -------------------------- *)
RATE_LIMIT_WINDOW == 60
MAX_REQUESTS_PER_WINDOW == 10
\* setTimeout(resolve, 5000) of the throttled branch, in seconds
THROTTLE_WAIT == 5
\* setTimeout(processQueue, 1000), in seconds
RESTART_DELAY == 1
\* games.ttl DEFAULT 604800
DEFAULT_TTL == 604800
\* attempts of one collection sub-fetch
maxRetries == 3

\* endpoint names the synchronizer passes to fetchBggXml
Endpoints == {"thing", "collection"}
JobIds == 1..MaxJobs
GameIds == 0..MaxGameId
NoGame == [present |-> FALSE, last_updated |-> 0, ttl |-> 0]
Users == {"u1"}
PlayIds == 1..MaxPlayId
\* lists of at most MaxItems elements
ListsOf(S) == UNION {[1..n -> S] : n \in 0..MaxItems}
CollectionItems == [id : GameIds, own : BOOLEAN]
PlayItems == [id : PlayIds, gameId : GameIds]
NoUser == [present |-> FALSE, last_synced |-> 0]
NoSave ==
  [kind |-> "none", ok |-> TRUE, undone |-> FALSE, id |-> -1, again |-> FALSE,
   hotGames |-> <<>>]
NoRows == [kind |-> "none", username |-> "", rows |-> {}]
\* no exposed operation has been called yet
Idle ==
  [tool |-> "none", pc |-> "idle", username |-> "", id |-> 0,
   subtype |-> "", retryCount |-> 0, boardgames |-> <<>>, items |-> <<>>,
   cascade |-> <<>>, success |-> TRUE,
   attempts |-> 0, allDeferred |-> FALSE, subFetch |-> "none", synced |-> "none",
   cause |-> "none", wrote |-> FALSE, rejected |-> FALSE, hotBefore |-> {},
   order |-> <<>>, first |-> "none", stepFailed |-> FALSE, forced |-> FALSE]
NoResponse ==
  [tool |-> "none", isError |-> FALSE, status |-> "none", message |-> "", rows |-> {}]
NoAnswer == [id |-> -1, exists |-> FALSE, result |-> FALSE,
             last_updated |-> 0, ttl |-> 0, at |-> 0]

VARIABLES
  now,               \* wall clock, seconds
  requestQueue,      \* pending jobs, head first; a job is named by its submission number
  isProcessingQueue, \* the "queue processor is running" flag
  acts,              \* processQueue activations past the guard, each suspended at an await
  timers,            \* deadlines of the pending setTimeout(processQueue, 1000) timers
  api_requests,      \* rows of the api_requests table, in insertion order
  jobEndpoint,       \* endpoint of each submitted job, in submission order
  dispatched,        \* jobs handed to fetchBggXmlDirectly, in dispatch order
  transportResult,   \* per job: "pending", or how its transport call ended: "returned" / "threw"
  throttled,         \* jobs that were put back at the front at least once
  handle,            \* per job, the calls made to its resolve / reject pair
  lastDone,          \* clock value at which the latest transport call finished, -1 if none
  games,             \* rows of the games table, by id
  answer,            \* the latest gameNeedsRefresh call and what it returned
  storeSteps,        \* clock jumps taken in the store specification
  users,             \* rows of the users table, by username
  user_collections,  \* rows of the user_collections table
  plays,             \* rows of the plays table
  hot_games,         \* rows of the hot_games table
  lastSave,          \* the latest multi-row save: which, whether it returned true, whether it rolled back
  returned,          \* what a getUserCollection / getUserPlays call has just returned
  op,                \* the exposed operation in progress, or the one that finished last
  response,          \* what the latest finished operation returned to its caller
  seen,              \* responses of get-user-collection, by what had happened upstream
  opsStarted         \* exposed operations called so far

queueVars == <<requestQueue, isProcessingQueue, acts, timers, api_requests,
               jobEndpoint, dispatched, transportResult, throttled, handle, lastDone>>
syncVars == <<op, response, seen, opsStarted>>
tableVars == <<users, user_collections, plays, hot_games, lastSave, returned, syncVars>>
storeVars == <<games, answer, storeSteps, tableVars>>
vars == <<now, requestQueue, isProcessingQueue, acts, timers, api_requests,
          jobEndpoint, dispatched, transportResult, throttled, handle, lastDone,
          games, answer, storeSteps,
          users, user_collections, plays, hot_games, lastSave, returned,
          op, response, seen, opsStarted>>

(* --------------------------- the store -------------------------------- *)
\* Rows an earlier run of the server can have left in the on-disk table
\* (CREATE TABLE IF NOT EXISTS keeps them): n requests to one endpoint.
PreloadCounts == {0, MAX_REQUESTS_PER_WINDOW - 1, MAX_REQUESTS_PER_WINDOW}
Preload(n) == [i \in 1..n |-> [endpoint |-> "thing", timestamp |-> 0 - PreloadAge]]

\* The statements on api_requests are taken to succeed: the table has no constraint,
\* so the catch blocks of checkRateLimit and logApiRequest run only on an I/O fault
\* of the database file, which is outside this model.
\* SELECT COUNT(*) FROM api_requests WHERE endpoint = ? AND timestamp > datetime('now', '-' || ? || ' seconds')
RequestCount(rows, endpoint, t, windowSeconds) ==
  Cardinality({i \in DOMAIN rows : /\ rows[i].endpoint = endpoint
                                   /\ rows[i].timestamp > t - windowSeconds})

\* a check that lets a request through when the window is already full
checkRateLimit_inclusive(rows, endpoint, t, windowSeconds, maxRequests) ==
  RequestCount(rows, endpoint, t, windowSeconds) <= maxRequests

\* return Number(result.count) < maxRequests
checkRateLimit(rows, endpoint, t, windowSeconds, maxRequests) ==
  RequestCount(rows, endpoint, t, windowSeconds) < maxRequests

\* INSERT INTO api_requests (endpoint, params); timestamp defaults to CURRENT_TIMESTAMP
\* a logApiRequest that writes no row
logApiRequest_skipped(rows, endpoint, t) == rows

logApiRequest(rows, endpoint, t) ==
  Append(rows, [endpoint |-> endpoint, timestamp |-> t])

\* The games row an id selects in gameNeedsRefresh's query:
\*   SELECT id FROM games WHERE id = ? AND (last_updated IS NULL OR
\*     DATETIME(last_updated, '+' || ttl || ' seconds') < DATETIME('now'))
\* saveGame always writes CURRENT_TIMESTAMP, so last_updated is never NULL.
StaleRowFound(tbl, id, t) ==
  /\ tbl[id].present
  /\ tbl[id].last_updated + tbl[id].ttl < t

\* "return !!game || !id": !id is true of the number 0 only
gameNeedsRefresh(tbl, id, t) == StaleRowFound(tbl, id, t) \/ id = 0

\* a save that adds the default ttl to the ttl the row had
saveGame_ttlAdded(tbl, id, t) ==
  [tbl EXCEPT ![id] = [present |-> TRUE, last_updated |-> t, ttl |-> @.ttl + DEFAULT_TTL]]

\* INSERT OR REPLACE INTO games (...) VALUES (..., CURRENT_TIMESTAMP); ttl is not among
\* the columns and takes its default
saveGame(tbl, id, t) ==
  [tbl EXCEPT ![id] = [present |-> TRUE, last_updated |-> t, ttl |-> DEFAULT_TTL]]

(* ---------------- the tables and their foreign keys ------------------- *)
\* The database as one value: what a statement reads and what it leaves behind.
Db ==
  [games |-> games, users |-> users, user_collections |-> user_collections,
   plays |-> plays, hot_games |-> hot_games]

\* a lookup that finds a games row for every id
GameExists_always(tbl, id) == TRUE

\* the games row of an id: the parent a REFERENCES games(id) key needs, and the row
\* "JOIN games g ON c.game_id = g.id" joins with
GameExists(tbl, id) == id \in DOMAIN tbl /\ tbl[id].present

\* INSERT OR REPLACE INTO games: saveGame's statement on the whole database.  REPLACE
\* deletes the old row first, and ON DELETE CASCADE then deletes the user_collections
\* and plays rows that reference it.
ReplaceGame(db, id, t) ==
  IF db.games[id].present
  THEN [db EXCEPT !.games = saveGame(@, id, t),
                  !.user_collections = {r \in @ : r.game_id # id},
                  !.plays = {r \in @ : r.game_id # id}]
  ELSE [db EXCEPT !.games = saveGame(@, id, t)]

\* INSERT OR REPLACE INTO users (username, last_synced) VALUES (?, CURRENT_TIMESTAMP).
\* Replacing an existing user deletes, by ON DELETE CASCADE, that user's rows in
\* user_collections and plays.
ReplaceUser(db, username, t) ==
  IF db.users[username].present
  THEN [db EXCEPT !.users[username] = [present |-> TRUE, last_synced |-> t],
                  !.user_collections = {r \in @ : r.username # username},
                  !.plays = {r \in @ : r.username # username}]
  ELSE [db EXCEPT !.users[username] = [present |-> TRUE, last_synced |-> t]]

\* collectionStmt.run(username, item.id, item.own ? 1 : 0, ...): one
\* INSERT OR REPLACE INTO user_collections; it throws when a foreign key has no parent.
InsertCollectionRow(db, username, item) ==
  IF db.users[username].present /\ GameExists(db.games, item.id)
  THEN [ok |-> TRUE,
        db |-> [db EXCEPT !.user_collections =
                  {r \in @ : ~(r.username = username /\ r.game_id = item.id)}
                  \cup {[username |-> username, game_id |-> item.id,
                         own |-> IF item.own THEN 1 ELSE 0]}]]
  ELSE [ok |-> FALSE, db |-> db]

\* "for (const item of collection) collectionStmt.run(...)", up to the first throw
RECURSIVE InsertCollectionRows(_, _, _)
InsertCollectionRows(db, username, items) ==
  IF items = <<>> THEN [ok |-> TRUE, db |-> db]
  ELSE LET r == InsertCollectionRow(db, username, Head(items))
       IN IF r.ok THEN InsertCollectionRows(r.db, username, Tail(items)) ELSE r

\* playStmt.run(play.id, username, play.gameId, ...): one INSERT OR REPLACE INTO plays
InsertPlayRow(db, username, play) ==
  IF db.users[username].present /\ GameExists(db.games, play.gameId)
  THEN [ok |-> TRUE,
        db |-> [db EXCEPT !.plays =
                  {r \in @ : r.id # play.id}
                  \cup {[id |-> play.id, username |-> username, game_id |-> play.gameId]}]]
  ELSE [ok |-> FALSE, db |-> db]

\* "for (const play of plays) playStmt.run(...)", up to the first throw
RECURSIVE InsertPlayRows(_, _, _)
InsertPlayRows(db, username, ps) ==
  IF ps = <<>> THEN [ok |-> TRUE, db |-> db]
  ELSE LET r == InsertPlayRow(db, username, Head(ps))
       IN IF r.ok THEN InsertPlayRows(r.db, username, Tail(ps)) ELSE r

\* a catch block that leaves the statements already run in place
Rollback_none(before, partial) == partial

\* db.exec('ROLLBACK') in the catch block: back to the state at BEGIN TRANSACTION
Rollback(before, partial) == before

\* saveUserCollection: BEGIN, replace the user, insert the rows, COMMIT and return
\* true; on a throw ROLLBACK and return false.  "undone" tells whether the statements
\* run before the throw had changed anything.
saveUserCollection(db, username, collection, t) ==
  LET r == InsertCollectionRows(ReplaceUser(db, username, t), username, collection)
  IN IF r.ok THEN [ok |-> TRUE, db |-> r.db, undone |-> FALSE]
     ELSE [ok |-> FALSE, db |-> Rollback(db, r.db), undone |-> r.db # db]

\* savePlays: the same transaction around the plays rows
savePlays(db, username, ps, t) ==
  LET r == InsertPlayRows(ReplaceUser(db, username, t), username, ps)
  IN IF r.ok THEN [ok |-> TRUE, db |-> r.db, undone |-> FALSE]
     ELSE [ok |-> FALSE, db |-> Rollback(db, r.db), undone |-> r.db # db]

\* SELECT c.*, g.name FROM user_collections c JOIN games g ON c.game_id = g.id
\* WHERE c.username = ?   (ORDER BY only orders the rows)
getUserCollection(db, username) ==
  {r \in db.user_collections :
     r.username = username /\ GameExists(db.games, r.game_id)}

\* SELECT p.*, g.name FROM plays p JOIN games g ON p.game_id = g.id
\* WHERE p.username = ?   (ORDER BY and LIMIT only select among these rows)
getUserPlays(db, username) ==
  {r \in db.plays : r.username = username /\ GameExists(db.games, r.game_id)}

\* a filter that keeps the rows of the other value
FilterOwned_swapped(rows, owned) ==
  {r \in rows : r.own = (IF owned THEN 0 ELSE 1)}

\* collection.filter(item => item.own === (args.owned ? 1 : 0))
FilterOwned(rows, owned) ==
  {r \in rows : r.own = (IF owned THEN 1 ELSE 0)}

(* ----------------------- the hot games table --------------------------- *)
\* a save that leaves the old rows in the table
DeleteHot_kept(rows) == rows

\* db.exec('DELETE FROM hot_games')
DeleteHot(rows) == {}

\* stmt.run(gameId, rank, ...): a plain INSERT, which throws when the id is already
\* in the table (id INTEGER PRIMARY KEY).  "Number(game.id) || 0" of a numeric id is
\* that number.
InsertHotRow(db, game) ==
  IF \E r \in db.hot_games : r.id = game.id
  THEN [ok |-> FALSE, db |-> db]
  ELSE [ok |-> TRUE,
        db |-> [db EXCEPT !.hot_games = @ \cup {[id |-> game.id, rank |-> game.rank]}]]

\* "for (const game of hotGames) stmt.run(...)", up to the first throw
RECURSIVE InsertHotRows(_, _)
InsertHotRows(db, hotGames) ==
  IF hotGames = <<>> THEN [ok |-> TRUE, db |-> db]
  ELSE LET r == InsertHotRow(db, Head(hotGames))
       IN IF r.ok THEN InsertHotRows(r.db, Tail(hotGames)) ELSE r

\* saveHotGames: delete, insert, return true; on a throw return false.  There is no
\* transaction, so the rows written before the throw stay.
saveHotGames(db, hotGames) ==
  InsertHotRows([db EXCEPT !.hot_games = DeleteHot(@)], hotGames)

\* SELECT * FROM hot_games ORDER BY rank LIMIT 50 (the lists here are shorter)
getHotGames(db) == db.hot_games

\* getGame: the row of the id, or null
getGame(db, id) == IF db.games[id].present THEN {[id |-> id]} ELSE {}

(* ------------------------ the synchronisation -------------------------- *)
\* What fetchBggXml settles with.  "error": the promise is rejected.  "deferred": a
\* document for which "data._termsofuse && !data.items" holds.  "data": any other
\* document, with the items it carries (none when data.items is missing or empty).
UpstreamItems == [id : GameIds, own : BOOLEAN]
\* the replies to a collection fetch; the items are reported with the own flag unset
\* (FlaggedReplies has the documents with either flag)
CollectionReplies ==
  {[kind |-> "error", items |-> <<>>], [kind |-> "deferred", items |-> <<>>]}
    \cup {[kind |-> "data", items |-> l] : l \in ListsOf([id : GameIds, own : {FALSE}])}
\* the collection documents with items, each item reported as owned or not
FlaggedReplies ==
  {[kind |-> "data", items |-> l] : l \in ListsOf(UpstreamItems) \ {<<>>}}
PlaysReplies ==
  {[kind |-> "error", items |-> <<>>]}
    \cup {[kind |-> "data", items |-> l] : l \in ListsOf(PlayItems)}
HotReplies ==
  {[kind |-> "error", items |-> <<>>]}
    \cup {[kind |-> "data", items |-> l] : l \in ListsOf(GameIds)}
\* "game": data.items.item[0] is the game asked for; "none": no item
ThingReplies == {"error", "none", "game"}

\* data.items.item.map(...) of syncCollectionType: the id is kept; the upstream flags
\* go under "status" (own: item.status?._own === "1"), and the item gets no "own" of
\* its own, so "item.own" is undefined (falsy) when the row is written.
MapCollection(items) ==
  [i \in DOMAIN items |->
     [id |-> items[i].id, own |-> FALSE, status |-> [own |-> items[i].own]]]

\* data.plays.play.slice(0, maxPlays).map(...) of syncUserPlays; maxPlays is at least
\* 10, longer than any list here
MapPlays(items) ==
  [i \in DOMAIN items |-> [id |-> items[i].id, gameId |-> items[i].gameId]]

\* data.items.item.map(...) of syncHotGames; upstream ranks the list by position
MapHot(items) == [i \in DOMAIN items |-> [id |-> items[i], rank |-> i]]

\* a loop that allows one attempt more
LoopContinues_inclusive(retryCount) == retryCount <= maxRetries

\* while (retryCount < maxRetries)
LoopContinues(retryCount) == retryCount < maxRetries

\* if (retryCount < maxRetries - 1) in the catch block of syncCollectionType
RetryAfterError(retryCount) == retryCount < maxRetries - 1

\* db.gameNeedsRefresh(game.id) in a cascade: the id is the attribute string of the
\* upstream document, and a non-empty string is truthy, so "!id" is false.
gameNeedsRefreshOfText(tbl, id, t) == StaleRowFound(tbl, id, t)

\* the part of "for (const game of ...)" that skips the games that need no refresh
RECURSIVE SkipFresh(_, _, _)
SkipFresh(tbl, ids, t) ==
  IF ids = <<>> THEN <<>>
  ELSE IF gameNeedsRefreshOfText(tbl, Head(ids), t) THEN ids
       ELSE SkipFresh(tbl, Tail(ids), t)

\* a result that names the failed sync by another status
Queued_failed ==
  [tool |-> "get-user-collection", isError |-> FALSE, status |-> "failed",
   message |-> "Collection request has been queued by BoardGameGeek", rows |-> {}]

\* the results of the exposed operations
Queued ==
  [tool |-> "get-user-collection", isError |-> FALSE, status |-> "queued",
   message |-> "Collection request has been queued by BoardGameGeek", rows |-> {}]
CollectionResponse(db, username) ==
  LET rows == getUserCollection(db, username)
  IN [tool |-> "get-user-collection", isError |-> FALSE, status |-> "success",
      message |-> IF rows = {} THEN "No games found" ELSE "", rows |-> rows]
PlaysResponse(db, username) ==
  LET rows == getUserPlays(db, username)
  IN [tool |-> "get-user-plays", isError |-> FALSE,
      status |-> IF rows = {} THEN "none" ELSE "plays",
      message |-> IF rows = {} THEN "No plays found" ELSE "", rows |-> rows]
HotResponse(db) ==
  [tool |-> "get-hot-games", isError |-> FALSE, status |-> "hot", message |-> "",
   rows |-> getHotGames(db)]
GameResponse(db, id) ==
  LET game == getGame(db, id)
  IN IF game # {}
     THEN [tool |-> "get-game-details", isError |-> FALSE, status |-> "game",
           message |-> "", rows |-> game]
     ELSE [tool |-> "get-game-details", isError |-> TRUE, status |-> "not found",
           message |-> "Game not found", rows |-> {}]

\* findSimilarGames: nothing when the reference game has no record, else the other
\* games of the table (scored, sorted, cut to the limit, which is above the table here)
findSimilarGames(db, gameId) ==
  IF getGame(db, gameId) = {} THEN {}
  ELSE {[id |-> g] : g \in {g \in GameIds : g # gameId /\ db.games[g].present}}

\* get-similar-games: the list of findSimilarGames, or the text "No game found with
\* ID ..." when the sync of an absent reference game returned false
SimilarResponse(db, id) ==
  [tool |-> "get-similar-games", isError |-> FALSE, status |-> "similar",
   message |-> "", rows |-> findSimilarGames(db, id)]
NoSimilar ==
  [tool |-> "get-similar-games", isError |-> FALSE, status |-> "no game",
   message |-> "No game found with ID", rows |-> {}]

(* ------------------------ the request queue --------------------------- *)
\* a guard that looks at the queue only
CanStart_noFlag(flag, q) == Len(q) > 0

\* the guard of processQueue: "if (isProcessingQueue || requestQueue.length === 0) return"
CanStart(flag, q) == ~flag /\ Len(q) > 0

\* reading the head without removing it
Shift_peek(q) == q

\* requestQueue.shift(): what is left in the queue
Shift(q) == Tail(q)

\* putting a throttled job back at the end
Unshift_atBack(q, r) == Append(q, r)

\* requestQueue.unshift(request)
Unshift(q, r) == <<r>> \o q

\* requestQueue.push({endpoint, params, resolve, reject})
Push(q, r) == Append(q, r)

\* what the transport call of job r produces: parsed data, or the error axios threw,
\* which fetchBggXmlDirectly rethrows unchanged
Data(r) == <<"data", r>>
Err(r) == <<"error", r>>

\* a catch block that swallows the error and resolves with nothing
Settlement_swallowed(ok, r) ==
  IF ok THEN [kind |-> "resolve", value |-> Data(r)]
        ELSE [kind |-> "resolve", value |-> <<"undefined", r>>]

\* request.resolve(data) in the try block, request.reject(error) in its catch
Settlement(ok, r) ==
  IF ok THEN [kind |-> "resolve", value |-> Data(r)]
        ELSE [kind |-> "reject", value |-> Err(r)]

\* settling in the try block and again in the finally block
Settle_twice(h, r, s) == [h EXCEPT ![r] = Append(Append(@, s), s)]

\* one call of the job's resolve or reject
Settle(h, r, s) == [h EXCEPT ![r] = Append(@, s)]

\* a finally block that never restarts the processor
ScheduleNext_never(ts, q, t) == ts

\* the finally block: "if (requestQueue.length > 0) setTimeout(processQueue, 1000)"
ScheduleNext(ts, q, t) == IF Len(q) > 0 THEN Append(ts, t + RESTART_DELAY) ELSE ts

\* no activation is between an already-resolved await and its continuation;
\* timers and I/O callbacks are macrotasks and run only then
NoMicrotaskPending == \A a \in acts : a.pc # "checking"

\* processQueue from its first line to "await db.checkRateLimit(...)".  checkRateLimit
\* has no await of its own, so its query runs here, synchronously.
ProcessQueueEntry(q, ts) ==
  IF CanStart(isProcessingQueue, q)
  THEN /\ isProcessingQueue' = TRUE
       /\ requestQueue' = Shift(q)
       /\ acts' = acts \cup
            {[req |-> Head(q), pc |-> "checking", until |-> 0,
              allowed |-> checkRateLimit(api_requests, jobEndpoint'[Head(q)], now,
                                         RATE_LIMIT_WINDOW, MAX_REQUESTS_PER_WINDOW)]}
       /\ timers' = ts
  ELSE /\ isProcessingQueue' = isProcessingQueue
       /\ requestQueue' = q
       /\ acts' = acts
       /\ timers' = ts

\* fetchBggXml(endpoint, params): push the job, start the processor if the flag is clear
fetchBggXml(endpoint) ==
  /\ Len(jobEndpoint) < MaxJobs
  /\ jobEndpoint' = Append(jobEndpoint, endpoint)
  /\ IF ~isProcessingQueue
     THEN ProcessQueueEntry(Push(requestQueue, Len(jobEndpoint) + 1), timers)
     ELSE /\ requestQueue' = Push(requestQueue, Len(jobEndpoint) + 1)
          /\ UNCHANGED <<isProcessingQueue, acts, timers>>
  /\ UNCHANGED <<now, api_requests, dispatched, transportResult, throttled, handle, lastDone>>
  /\ UNCHANGED storeVars

\* a setTimeout(processQueue, 1000) timer fires
TimerFire ==
  /\ timers # <<>>
  /\ Head(timers) <= now
  /\ NoMicrotaskPending
  /\ jobEndpoint' = jobEndpoint
  /\ ProcessQueueEntry(requestQueue, Tail(timers))
  /\ UNCHANGED <<now, api_requests, dispatched, transportResult, throttled, handle, lastDone>>
  /\ UNCHANGED storeVars

\* continuation of "await db.checkRateLimit": rate limit not reached.
\* logApiRequest runs its INSERT synchronously, then the transport call is started.
Dispatch(a) ==
  /\ a.pc = "checking"
  /\ a.allowed
  /\ api_requests' = logApiRequest(api_requests, jobEndpoint[a.req], now)
  /\ dispatched' = Append(dispatched, a.req)
  /\ acts' = (acts \ {a}) \cup
       {[a EXCEPT !.pc = "fetching", !.until = now + MaxFetchTime]}
  /\ UNCHANGED <<now, requestQueue, isProcessingQueue, timers, jobEndpoint,
                 transportResult, throttled, handle, lastDone>>
  /\ UNCHANGED storeVars

\* continuation of "await db.checkRateLimit": rate limit reached.
\* The job goes back to the front and the activation sleeps 5 seconds.
Throttle(a) ==
  /\ a.pc = "checking"
  /\ ~a.allowed
  /\ requestQueue' = Unshift(requestQueue, a.req)
  /\ acts' = (acts \ {a}) \cup
       {[a EXCEPT !.pc = "waiting", !.until = now + THROTTLE_WAIT]}
  /\ throttled' = throttled \cup {a.req}
  /\ UNCHANGED <<now, isProcessingQueue, timers, api_requests, jobEndpoint,
                 dispatched, transportResult, handle, lastDone>>
  /\ UNCHANGED storeVars

\* the transport call of the activation's job returns (ok) or throws (~ok);
\* resolve / reject, then the finally block
TransportReturn(a, ok) ==
  /\ a.pc = "fetching"
  /\ NoMicrotaskPending
  /\ handle' = Settle(handle, a.req, Settlement(ok, a.req))
  /\ transportResult' = [transportResult EXCEPT ![a.req] = IF ok THEN "returned" ELSE "threw"]
  /\ lastDone' = now
  /\ isProcessingQueue' = FALSE
  /\ acts' = acts \ {a}
  /\ timers' = ScheduleNext(timers, requestQueue, now)
  /\ UNCHANGED <<now, requestQueue, api_requests, jobEndpoint, dispatched, throttled>>
  /\ UNCHANGED storeVars

\* the 5-second sleep of a throttled activation ends; the finally block
WaitDone(a) ==
  /\ a.pc = "waiting"
  /\ a.until <= now
  /\ NoMicrotaskPending
  /\ isProcessingQueue' = FALSE
  /\ acts' = acts \ {a}
  /\ timers' = ScheduleNext(timers, requestQueue, now)
  /\ UNCHANGED <<now, requestQueue, api_requests, jobEndpoint, dispatched,
                 transportResult, throttled, handle, lastDone>>
  /\ UNCHANGED storeVars

\* something will happen without a further submission
Pending == acts # {} \/ timers # <<>>

\* one second passes; due timers and sleeps run first, the transport answers in time
Tick ==
  /\ NoMicrotaskPending
  /\ \A a \in acts : a.until > now
  /\ timers # <<>> => Head(timers) > now
  /\ now < MaxTime \/ Pending
  /\ now' = now + 1
  /\ UNCHANGED queueVars
  /\ UNCHANGED storeVars

(* ------------------- operations on the games table -------------------- *)
\* a caller saves the record of game id
SaveGame(id) ==
  /\ games' = saveGame(games, id, now)
  /\ UNCHANGED <<now, answer, storeSteps>>
  /\ UNCHANGED tableVars
  /\ UNCHANGED queueVars

\* a caller asks whether game id needs a refresh
GameNeedsRefresh(id) ==
  /\ answer' = [id |-> id, exists |-> games[id].present,
                result |-> gameNeedsRefresh(games, id, now),
                last_updated |-> games[id].last_updated, ttl |-> games[id].ttl,
                at |-> now]
  /\ UNCHANGED <<now, games, storeSteps>>
  /\ UNCHANGED tableVars
  /\ UNCHANGED queueVars

\* the clock moves on by a second, or by a whole time-to-live
ClockJump(d) ==
  /\ storeSteps < MaxStoreSteps
  /\ storeSteps' = storeSteps + 1
  /\ now' = now + d
  /\ UNCHANGED <<games, answer>>
  /\ UNCHANGED tableVars
  /\ UNCHANGED queueVars

(* ------------------ operations on the other tables -------------------- *)

\* what lastSave holds after a saveUserCollection or savePlays call
Saved(kind, ok, undone) ==
  [kind |-> kind, ok |-> ok, undone |-> undone, id |-> -1, again |-> FALSE,
   hotGames |-> <<>>]

\* what lastSave holds after a saveGame call: the id, and whether the call before it
\* was a saveGame of the same id
GameSaved(id) ==
  [kind |-> "game", ok |-> TRUE, undone |-> FALSE, id |-> id,
   again |-> lastSave.kind = "game" /\ lastSave.id = id, hotGames |-> <<>>]

\* what lastSave holds after a saveHotGames call: the list given and the result
HotSaved(hotGames, ok) ==
  [kind |-> "hot", ok |-> ok, undone |-> FALSE, id |-> -1, again |-> FALSE,
   hotGames |-> hotGames]

\* the database value written back to the table variables
WriteDb(db) ==
  /\ games' = db.games
  /\ users' = db.users
  /\ user_collections' = db.user_collections
  /\ plays' = db.plays
  /\ hot_games' = db.hot_games

\* saveGame called on the full database
DbSaveGame(id) ==
  /\ WriteDb(ReplaceGame(Db, id, now))
  /\ lastSave' = GameSaved(id)
  /\ returned' = NoRows
  /\ UNCHANGED <<now, answer, storeSteps>>
  /\ UNCHANGED syncVars
  /\ UNCHANGED queueVars

\* a caller saves a collection
DbSaveUserCollection(username, collection) ==
  LET r == saveUserCollection(Db, username, collection, now)
  IN /\ WriteDb(r.db)
     /\ lastSave' = Saved("collection", r.ok, r.undone)
     /\ returned' = NoRows
     /\ UNCHANGED <<now, answer, storeSteps>>
     /\ UNCHANGED syncVars
     /\ UNCHANGED queueVars

\* a caller saves plays
DbSavePlays(username, ps) ==
  LET r == savePlays(Db, username, ps, now)
  IN /\ WriteDb(r.db)
     /\ lastSave' = Saved("plays", r.ok, r.undone)
     /\ returned' = NoRows
     /\ UNCHANGED <<now, answer, storeSteps>>
     /\ UNCHANGED syncVars
     /\ UNCHANGED queueVars

\* the hot lists a caller may hand to saveHotGames: ids in any order, repeats
\* included, ranked by position
HotLists == {MapHot(l) : l \in UNION {[1..n -> GameIds] : n \in 0..MaxHot}}

\* a caller saves a hot list
DbSaveHotGames(hotGames) ==
  LET r == saveHotGames(Db, hotGames)
  IN /\ WriteDb(r.db)
     /\ lastSave' = HotSaved(hotGames, r.ok)
     /\ returned' = NoRows
     /\ UNCHANGED <<now, answer, storeSteps>>
     /\ UNCHANGED syncVars
     /\ UNCHANGED queueVars

\* a caller reads a collection
DbGetUserCollection(username) ==
  /\ returned' = [kind |-> "collection", username |-> username,
                  rows |-> getUserCollection(Db, username)]
  /\ UNCHANGED <<now, games, answer, storeSteps, users, user_collections, plays,
                 hot_games, lastSave>>
  /\ UNCHANGED syncVars
  /\ UNCHANGED queueVars

\* a caller reads plays
DbGetUserPlays(username) ==
  /\ returned' = [kind |-> "plays", username |-> username,
                  rows |-> getUserPlays(Db, username)]
  /\ UNCHANGED <<now, games, answer, storeSteps, users, user_collections, plays,
                 hot_games, lastSave>>
  /\ UNCHANGED syncVars
  /\ UNCHANGED queueVars

\* the collection read of get-user-collection with the owned filter given:
\* db.getUserCollection(args.username), then the filter
ReadCollectionOwned(username, owned) ==
  /\ returned' = [kind |-> IF owned THEN "owned" ELSE "not owned", username |-> username,
                  rows |-> FilterOwned(getUserCollection(Db, username), owned)]
  /\ UNCHANGED <<now, games, answer, storeSteps, users, user_collections, plays,
                 hot_games, lastSave>>
  /\ UNCHANGED syncVars
  /\ UNCHANGED queueVars

(* ----------------------- the exposed operations ------------------------ *)
\* what a step of an operation leaves alone besides the tables
SyncFrame ==
  /\ UNCHANGED <<now, answer, storeSteps, returned>>
  /\ UNCHANGED queueVars

\* the operation returns r to its caller; its locals are gone, what is kept of it
\* is what it fetched and how it went
Respond(o, r) ==
  /\ op' = [o EXCEPT !.pc = "idle", !.subtype = "", !.retryCount = 0,
                     !.boardgames = <<>>, !.cascade = <<>>, !.success = TRUE]
  /\ response' = r
  /\ seen' = IF o.tool = "get-user-collection" /\ o.cause \in {"deferred", "error"}
             THEN seen \cup {[cause |-> o.cause, status |-> r.status, message |-> r.message]}
             ELSE seen

\* the operation goes on to its next suspension point, its caller has no answer yet
Goto(o) ==
  /\ op' = o
  /\ response' = NoResponse
  /\ UNCHANGED seen

\* get-user-collection after syncUserCollection returned ok: "queued" when it is
\* false, else the rows of the store.  This is the same after the forced sync
\* (tools.ts:146) and after the one for an empty store (tools.ts:194).
CollectionSynced(o, db, ok) ==
  Respond([o EXCEPT !.synced = IF ok THEN "true" ELSE "false"],
          IF ok THEN CollectionResponse(db, o.username) ELSE Queued)

\* get-user-plays after syncUserPlays returned: the result is not looked at
PlaysSynced(o, db, ok) ==
  Respond([o EXCEPT !.synced = IF ok THEN "true" ELSE "false"],
          PlaysResponse(db, o.username))

\* get-hot-games after syncHotGames returned: the result is not looked at
HotSynced(o, db, ok) ==
  Respond([o EXCEPT !.synced = IF ok THEN "true" ELSE "false"], HotResponse(db))

\* the cascade loop of syncUserPlays and syncHotGames from its current position: on
\* to the next game that needs a refresh, or out of the loop to the return
Cascade(o, db) ==
  LET rest == SkipFresh(db.games, o.cascade, now)
  IN IF rest # <<>>
     THEN Goto([o EXCEPT !.pc = "thing", !.id = Head(rest), !.cascade = Tail(rest)])
     ELSE IF o.tool = "get-user-plays" THEN PlaysSynced(o, db, TRUE)
          ELSE HotSynced(o, db, o.success)

\* a sub-fetch entered with the other subtype
StartSubFetch_swapped(o, subtype) ==
  LET other == IF subtype = "boardgame" THEN "boardgameexpansion" ELSE "boardgame"
  IN [o EXCEPT !.pc = "collection", !.subtype = other, !.retryCount = 0,
               !.attempts = 1, !.allDeferred = TRUE, !.subFetch = "none",
               !.order = Append(@, other)]

\* syncCollectionType is entered: retryCount = 0 and the first fetch is submitted.
\* "order" keeps the subtypes of the sub-fetches entered so far.
StartSubFetch(o, subtype) ==
  [o EXCEPT !.pc = "collection", !.subtype = subtype, !.retryCount = 0,
            !.attempts = 1, !.allDeferred = TRUE, !.subFetch = "none",
            !.order = Append(@, subtype)]

\* how the first sub-fetch ended, once the sub-fetch of o has ended as given
FirstEnded(o, how) == IF o.subtype = "boardgame" THEN how ELSE o.first

\* get-game-details is called
CallGetGameDetails(id, force) ==
  /\ op.pc = "idle" /\ opsStarted < MaxOps
  /\ opsStarted' = opsStarted + 1
  /\ LET o == [Idle EXCEPT !.tool = "get-game-details", !.id = id, !.forced = force]
     IN IF force \/ gameNeedsRefresh(games, id, now)
        THEN Goto([o EXCEPT !.pc = "thing"])
        ELSE Respond(o, GameResponse(Db, id))
  /\ UNCHANGED <<games, users, user_collections, plays, hot_games, lastSave>>
  /\ SyncFrame

\* get-similar-games is called: the reference game is synced when getGame finds no
\* record of it
CallGetSimilarGames(id) ==
  /\ op.pc = "idle" /\ opsStarted < MaxOps
  /\ opsStarted' = opsStarted + 1
  /\ LET o == [Idle EXCEPT !.tool = "get-similar-games", !.id = id]
     IN IF getGame(Db, id) = {}
        THEN Goto([o EXCEPT !.pc = "thing"])
        ELSE Respond(o, SimilarResponse(Db, id))
  /\ UNCHANGED <<games, users, user_collections, plays, hot_games, lastSave>>
  /\ SyncFrame

\* get-user-collection is called
CallGetUserCollection(username, force) ==
  /\ op.pc = "idle" /\ opsStarted < MaxOps
  /\ opsStarted' = opsStarted + 1
  /\ LET o == [Idle EXCEPT !.tool = "get-user-collection", !.username = username]
     IN IF force \/ getUserCollection(Db, username) = {}
        THEN Goto(StartSubFetch(o, "boardgame"))
        ELSE Respond(o, CollectionResponse(Db, username))
  /\ UNCHANGED <<games, users, user_collections, plays, hot_games, lastSave>>
  /\ SyncFrame

\* get-user-plays is called
CallGetUserPlays(username, force) ==
  /\ op.pc = "idle" /\ opsStarted < MaxOps
  /\ opsStarted' = opsStarted + 1
  /\ LET o == [Idle EXCEPT !.tool = "get-user-plays", !.username = username]
     IN IF force \/ getUserPlays(Db, username) = {}
        THEN Goto([o EXCEPT !.pc = "plays"])
        ELSE Respond(o, PlaysResponse(Db, username))
  /\ UNCHANGED <<games, users, user_collections, plays, hot_games, lastSave>>
  /\ SyncFrame

\* get-hot-games is called
CallGetHotGames ==
  /\ op.pc = "idle" /\ opsStarted < MaxOps
  /\ opsStarted' = opsStarted + 1
  /\ Goto([Idle EXCEPT !.tool = "get-hot-games", !.pc = "hot", !.hotBefore = hot_games])
  /\ UNCHANGED <<games, users, user_collections, plays, hot_games, lastSave>>
  /\ SyncFrame

\* a failed sync that saves the boardgame items it has
FailedSyncDb_partial(db, o, t) == saveUserCollection(db, o.username, o.boardgames, t).db

\* the store when syncUserCollection returns false: a sub-fetch threw, the catch
\* block is entered and saveUserCollection is not reached
FailedSyncDb(db, o, t) == db

\* the fetch of syncCollectionType settles
CollectionReply(reply) ==
  /\ op.pc = "collection"
  /\ IF reply.kind = "error"
     THEN IF RetryAfterError(op.retryCount)
          THEN /\ Goto([op EXCEPT !.pc = "backoff", !.allDeferred = FALSE])
               /\ UNCHANGED <<games, users, user_collections, plays, hot_games, lastSave>>
          ELSE LET db == FailedSyncDb(Db, op, now)
               IN /\ WriteDb(db)
                  /\ UNCHANGED lastSave
                  /\ CollectionSynced([op EXCEPT !.subFetch = "failed", !.cause = "error",
                                                 !.allDeferred = FALSE,
                                                 !.first = FirstEnded(op, "failed")],
                                      db, FALSE)
     ELSE IF reply.kind = "deferred"
     THEN /\ Goto([op EXCEPT !.pc = "backoff"])
          /\ UNCHANGED <<games, users, user_collections, plays, hot_games, lastSave>>
     ELSE IF op.subtype = "boardgame"
     THEN /\ Goto(StartSubFetch([op EXCEPT !.boardgames = MapCollection(reply.items),
                                           !.first = FirstEnded(op, "items")],
                                "boardgameexpansion"))
          /\ UNCHANGED <<games, users, user_collections, plays, hot_games, lastSave>>
     ELSE LET allItems == op.boardgames \o MapCollection(reply.items)
              r == saveUserCollection(Db, op.username, allItems, now)
          IN /\ WriteDb(r.db)
             /\ lastSave' = Saved("collection", r.ok, r.undone)
             /\ CollectionSynced([op EXCEPT !.items = allItems, !.subFetch = "items",
                                            !.allDeferred = FALSE,
                                            !.wrote = TRUE, !.rejected = ~r.ok],
                                 r.db, TRUE)
  /\ opsStarted' = opsStarted
  /\ SyncFrame

\* the 5 second wait of syncCollectionType is over: retryCount++ and the loop test
BackoffDone ==
  /\ op.pc = "backoff"
  /\ LET n == op.retryCount + 1
     IN IF LoopContinues(n)
        THEN /\ Goto([op EXCEPT !.pc = "collection", !.retryCount = n, !.attempts = @ + 1])
             /\ UNCHANGED <<games, users, user_collections, plays, hot_games, lastSave>>
        ELSE LET db == FailedSyncDb(Db, op, now)
             IN /\ WriteDb(db)
                /\ UNCHANGED lastSave
                /\ CollectionSynced([op EXCEPT !.retryCount = n, !.subFetch = "failed",
                                               !.cause = "deferred",
                                               !.first = FirstEnded(op, "failed")],
                                    db, FALSE)
  /\ opsStarted' = opsStarted
  /\ SyncFrame

\* a cascade whose failed step ends the parent at once, the remaining steps dropped
CascadeStepDone_aborted(o, reply) ==
  IF reply = "game" THEN [o EXCEPT !.pc = "pause"]
  ELSE [o EXCEPT !.pc = "idle", !.cascade = <<>>, !.stepFailed = TRUE]

\* "await syncGameDetails(...)" in a cascade loop: the result is not looked at, the
\* 100 ms wait follows.  "stepFailed" keeps whether a step returned false.
CascadeStepDone(o, reply) ==
  [o EXCEPT !.pc = "pause", !.stepFailed = @ \/ reply # "game"]

\* a sync that saves a record also when the document has no item
syncGameDetailsDb_placeholder(db, id, reply, t) ==
  IF reply = "error" THEN db ELSE ReplaceGame(db, id, t)

\* the store after syncGameDetails: saveGame is reached only with an item; a
\* rejected fetch goes to the catch block and a document without items returns false
syncGameDetailsDb(db, id, reply, t) ==
  IF reply = "game" THEN ReplaceGame(db, id, t) ELSE db

\* the fetch of syncGameDetails settles
ThingReply(reply) ==
  /\ op.pc = "thing"
  /\ LET db == syncGameDetailsDb(Db, op.id, reply, now)
         o == IF reply = "error" /\ op.tool = "get-game-details"
              THEN [op EXCEPT !.cause = "error"] ELSE op
     IN /\ WriteDb(db)
        /\ lastSave' = IF reply = "game" THEN GameSaved(op.id) ELSE lastSave
        /\ IF op.tool = "get-game-details"
           THEN Respond([o EXCEPT !.synced = IF reply = "game" THEN "true" ELSE "false"],
                        GameResponse(db, op.id))
           ELSE IF op.tool = "get-similar-games"
           THEN Respond([o EXCEPT !.synced = IF reply = "game" THEN "true" ELSE "false"],
                        IF reply = "game" THEN SimilarResponse(db, op.id) ELSE NoSimilar)
           ELSE Goto(CascadeStepDone(o, reply))
  /\ opsStarted' = opsStarted
  /\ SyncFrame

\* the 100 ms wait after a cascaded syncGameDetails is over
PauseDone ==
  /\ op.pc = "pause"
  /\ Cascade(op, Db)
  /\ UNCHANGED <<games, users, user_collections, plays, hot_games, lastSave>>
  /\ opsStarted' = opsStarted
  /\ SyncFrame

\* the fetch of syncUserPlays settles
PlaysReply(reply) ==
  /\ op.pc = "plays"
  /\ IF reply.kind = "error"
     THEN /\ PlaysSynced([op EXCEPT !.cause = "error"], Db, FALSE)
          /\ UNCHANGED <<games, users, user_collections, plays, hot_games, lastSave>>
     ELSE IF reply.items = <<>>
     THEN /\ PlaysSynced(op, Db, TRUE)
          /\ UNCHANGED <<games, users, user_collections, plays, hot_games, lastSave>>
     ELSE LET ps == MapPlays(reply.items)
              r == savePlays(Db, op.username, ps, now)
          IN /\ WriteDb(r.db)
             /\ lastSave' = Saved("plays", r.ok, r.undone)
             /\ Cascade([op EXCEPT !.items = ps, !.wrote = TRUE, !.rejected = ~r.ok,
                                   !.cascade = [i \in DOMAIN ps |-> ps[i].gameId]], r.db)
  /\ opsStarted' = opsStarted
  /\ SyncFrame

\* the fetch of syncHotGames settles
HotReply(reply) ==
  /\ op.pc = "hot"
  /\ IF reply.kind = "error"
     THEN /\ HotSynced([op EXCEPT !.cause = "error"], Db, FALSE)
          /\ UNCHANGED <<games, users, user_collections, plays, hot_games, lastSave>>
     ELSE IF reply.items = <<>>
     THEN /\ HotSynced(op, Db, FALSE)
          /\ UNCHANGED <<games, users, user_collections, plays, hot_games, lastSave>>
     ELSE LET hotGames == MapHot(reply.items)
              r == saveHotGames(Db, hotGames)
          IN /\ WriteDb(r.db)
             /\ lastSave' = HotSaved(hotGames, r.ok)
             /\ Cascade([op EXCEPT !.items = hotGames, !.wrote = TRUE, !.rejected = ~r.ok,
                                   !.success = r.ok,
                                   !.cascade = [i \in DOMAIN hotGames |-> hotGames[i].id]],
                        r.db)
  /\ opsStarted' = opsStarted
  /\ SyncFrame

\* between two operations more than the default ttl passes, and the records that
\* were fresh are stale
Later ==
  /\ op.pc = "idle" /\ opsStarted < MaxOps
  /\ \E id \in GameIds : games[id].present /\ ~StaleRowFound(games, id, now)
  /\ ClockJump(DEFAULT_TTL + 1)

Init ==
  /\ now = 0
  /\ requestQueue = <<>>
  /\ isProcessingQueue = FALSE
  /\ acts = {}
  /\ timers = <<>>
  /\ \E n \in PreloadCounts : api_requests = Preload(n)
  /\ jobEndpoint = <<>>
  /\ dispatched = <<>>
  /\ transportResult = [j \in JobIds |-> "pending"]
  /\ throttled = {}
  /\ handle = [j \in JobIds |-> <<>>]
  /\ lastDone = -1
  /\ games = [g \in GameIds |-> NoGame]
  /\ users = [u \in Users |-> NoUser]
  /\ user_collections = {}
  /\ plays = {}
  /\ hot_games = {}
  /\ lastSave = NoSave
  /\ returned = NoRows
  /\ op = Idle
  /\ response = NoResponse
  /\ seen = {}
  /\ opsStarted = 0
  /\ answer = NoAnswer
  /\ storeSteps = 0

Next ==
  \/ \E e \in Endpoints : fetchBggXml(e)
  \/ TimerFire
  \/ \E a \in acts : Dispatch(a)
  \/ \E a \in acts : Throttle(a)
  \/ \E a \in acts : \E ok \in BOOLEAN : TransportReturn(a, ok)
  \/ \E a \in acts : WaitDone(a)
  \/ Tick

Spec == Init /\ [][Next]_vars

\* The queue under the scheduling the event loop provides: a continuation, a due
\* timer and an expired sleep run, the transport call returns, and time passes.
FairSpec ==
  /\ Init
  /\ [][Next]_vars
  /\ WF_vars(\E a \in acts : Dispatch(a))
  /\ WF_vars(\E a \in acts : Throttle(a))
  /\ WF_vars(\E a \in acts : \E ok \in BOOLEAN : TransportReturn(a, ok))
  /\ WF_vars(\E a \in acts : WaitDone(a))
  /\ WF_vars(TimerFire)
  /\ WF_vars(Tick)

\* The freshness check and the games table on their own.
StoreNext ==
  \/ \E id \in GameIds : SaveGame(id)
  \/ \E id \in GameIds : GameNeedsRefresh(id)
  \/ \E d \in {1, DEFAULT_TTL} : ClockJump(d)

StoreSpec == Init /\ [][StoreNext]_vars

\* The save and read functions of the store, called with any arguments.
TableNext ==
  \/ \E id \in GameIds : DbSaveGame(id)
  \/ \E u \in Users : \E c \in ListsOf(CollectionItems) : DbSaveUserCollection(u, c)
  \/ \E u \in Users : \E ps \in ListsOf(PlayItems) : DbSavePlays(u, ps)
  \/ \E u \in Users : DbGetUserCollection(u)
  \/ \E u \in Users : DbGetUserPlays(u)
  \/ \E u \in Users : \E owned \in BOOLEAN : ReadCollectionOwned(u, owned)

TableSpec == Init /\ [][TableNext]_vars

\* Direct saves of hot lists, among saves of games.
HotNext ==
  \/ \E hotGames \in HotLists : DbSaveHotGames(hotGames)
  \/ \E id \in GameIds : DbSaveGame(id)

HotSpec == Init /\ [][HotNext]_vars

\* The exposed operations, one at a time, against an upstream that answers anything.
SyncNext ==
  \/ \E id \in GameIds : \E force \in BOOLEAN : CallGetGameDetails(id, force)
  \/ \E u \in Users : \E force \in BOOLEAN : CallGetUserCollection(u, force)
  \/ \E u \in Users : \E force \in BOOLEAN : CallGetUserPlays(u, force)
  \/ CallGetHotGames
  \/ \E id \in GameIds : CallGetSimilarGames(id)
  \/ \E reply \in CollectionReplies : CollectionReply(reply)
  \/ BackoffDone
  \/ \E reply \in ThingReplies : ThingReply(reply)
  \/ PauseDone
  \/ \E reply \in PlaysReplies : PlaysReply(reply)
  \/ \E reply \in HotReplies : HotReply(reply)
  \/ Later

\* the request log starts empty here: the fetches are taken as settled
SyncInit == Init /\ api_requests = <<>>

SyncSpec == SyncInit /\ [][SyncNext]_vars

\* upstream plays documents of up to MaxCascade plays: play i has id i and references
\* any game, so that several plays may reference the same game
CascadePlaysReplies ==
  UNION {{[kind |-> "data", items |-> [i \in 1..n |-> [id |-> i, gameId |-> g[i]]]] :
            g \in [1..n -> GameIds]} : n \in 1..MaxCascade}

\* Plays syncs with their cascade of game refreshes, among game refreshes, the
\* records growing stale in between.
CascadeNext ==
  \/ \E id \in GameIds : \E force \in BOOLEAN : CallGetGameDetails(id, force)
  \/ \E u \in Users : \E force \in BOOLEAN : CallGetUserPlays(u, force)
  \/ \E reply \in CascadePlaysReplies : PlaysReply(reply)
  \/ \E reply \in ThingReplies : ThingReply(reply)
  \/ PauseDone
  \/ Later

CascadeSpec == SyncInit /\ [][CascadeNext]_vars

\* Collection syncs whose upstream documents report items as owned or not, among
\* game refreshes.
OwnNext ==
  \/ \E id \in GameIds : \E force \in BOOLEAN : CallGetGameDetails(id, force)
  \/ \E reply \in ThingReplies : ThingReply(reply)
  \/ \E u \in Users : \E force \in BOOLEAN : CallGetUserCollection(u, force)
  \/ \E reply \in FlaggedReplies \cup {[kind |-> "data", items |-> <<>>]} :
       CollectionReply(reply)

OwnSpec == SyncInit /\ [][OwnNext]_vars

\* Collection syncs, among game refreshes, when every fetch settles and every wait
\* ends: the promise of fetchBggXml is settled by the queue, and the setTimeout of a
\* wait fires.
CollectionNext ==
  \/ \E id \in GameIds : \E force \in BOOLEAN : CallGetGameDetails(id, force)
  \/ \E reply \in ThingReplies : ThingReply(reply)
  \/ \E u \in Users : \E force \in BOOLEAN : CallGetUserCollection(u, force)
  \/ \E reply \in CollectionReplies : CollectionReply(reply)
  \/ BackoffDone

FairSyncSpec ==
  /\ SyncInit
  /\ [][CollectionNext]_vars
  /\ WF_vars(\E reply \in CollectionReplies : CollectionReply(reply))
  /\ WF_vars(BackoffDone)

(* ------------------------------ claims -------------------------------- *)
Range(s) == {s[i] : i \in DOMAIN s}

\* rows of api_requests written in this run (the rows of earlier runs are older than the start)
LoggedNow == SelectSeq(api_requests, LAMBDA r : r.timestamp >= 0)

\* requests to any endpoint within the trailing window
RequestsInWindow ==
  Cardinality({i \in DOMAIN api_requests :
                 api_requests[i].timestamp > now - RATE_LIMIT_WINDOW})

\* C1: at every moment, the requests dispatched to the transport within the trailing
\* RATE_LIMIT_WINDOW seconds, all endpoints taken together, number at most
\* MAX_REQUESTS_PER_WINDOW.  (Every dispatch writes one api_requests row, see C7.)
C1_GlobalWindowLimit == RequestsInWindow <= MAX_REQUESTS_PER_WINDOW

\* C2: jobs are dispatched in submission order (job k is the k-th dispatch), and a
\* throttled job waits at the head of the queue, whatever was submitted meanwhile.
C2_FifoDispatch ==
  /\ \A i \in DOMAIN dispatched : dispatched[i] = i
  /\ \A a \in acts : a.pc = "waiting" =>
       /\ requestQueue # <<>>
       /\ Head(requestQueue) = a.req

\* a job that was throttled, with a later job submitted behind it, has been dispatched
\* first and the later job after it
C2_Witness ==
  \E j \in throttled :
    /\ Len(dispatched) > j
    /\ dispatched[j] = j
    /\ dispatched[j + 1] = j + 1

\* C3: every submitted job is eventually dispatched and its promise eventually settled.
C3_EventuallySettled ==
  \A j \in JobIds :
    (Len(jobEndpoint) >= j) ~> (j \in Range(dispatched) /\ handle[j] # <<>>)

\* a job that was throttled, and one that waited in the queue behind a running
\* dispatcher, have both been settled
C3_Witness ==
  /\ Len(jobEndpoint) = MaxJobs
  /\ throttled # {}
  /\ \A j \in JobIds : handle[j] # <<>>

\* C4: at most one processQueue activation is past the guard at any time, and the
\* flag is set while it is.
C4_SingleDispatcher ==
  /\ Cardinality(acts) <= 1
  /\ acts # {} => isProcessingQueue

\* a restart timer is due while a dispatcher is in its transport call and a job waits
C4_Witness ==
  /\ \E a \in acts : a.pc = "fetching"
  /\ timers # <<>>
  /\ Head(timers) <= now
  /\ requestQueue # <<>>

\* C5: a dispatch that follows a finished transport call happens at least
\* RESTART_DELAY seconds after that call finished.
C5_MinimumDelay ==
  [][(Len(dispatched') > Len(dispatched) /\ lastDone >= 0)
       => now' >= lastDone + RESTART_DELAY]_vars

\* C6: a job's resolve / reject pair is called exactly once when its transport call
\* has finished, and not at all before (in particular not while it is throttled).
C6_SettledOnce ==
  \A j \in JobIds :
    Len(handle[j]) = IF transportResult[j] # "pending" THEN 1 ELSE 0

\* a job that was throttled and put back has later been settled, once
C6_Witness == \E j \in throttled : Len(handle[j]) = 1

\* C7: the rows written in this run are, in order, the endpoints of the dispatched
\* jobs: one row per dispatch, present as soon as the job is dispatched and kept when
\* the transport call fails; a throttled re-check writes nothing.
C7_LoggedAtDispatch ==
  /\ Len(LoggedNow) = Len(dispatched)
  /\ \A k \in DOMAIN dispatched :
       LoggedNow[k].endpoint = jobEndpoint[dispatched[k]]

\* a throttled job was later dispatched, its transport call failed, and its row counts
C7_Witness ==
  \E j \in throttled :
    /\ transportResult[j] = "threw"
    /\ RequestCount(api_requests, jobEndpoint[j], now, RATE_LIMIT_WINDOW) >= 1

\* C8: the error a job's transport call raised is what that job's handle is rejected
\* with, no other job's handle receives it, and when jobs remain queued after a
\* dispatcher ends another run of the processor is under way or scheduled.
C8_ErrorToItsJob ==
  /\ \A j \in JobIds : transportResult[j] = "threw" =>
       /\ handle[j] = <<[kind |-> "reject", value |-> Err(j)]>>
       /\ \A k \in JobIds \ {j} : \A i \in DOMAIN handle[k] : handle[k][i].value # Err(j)
  /\ requestQueue # <<>> => (acts # {} \/ timers # <<>>)

\* a transport call failed while a job was queued, and that job was dispatched afterwards
C8_Witness ==
  \E j \in JobIds :
    /\ transportResult[j] = "threw"
    /\ j + 1 \in Range(dispatched)
    /\ handle[j + 1] = <<[kind |-> "resolve", value |-> Data(j + 1)]>>

\* C9: no job is dispatched to the transport more than once.
C9_NoRetry ==
  \A i, k \in DOMAIN dispatched : dispatched[i] = dispatched[k] => i = k

\* all jobs are done, one was throttled and one failed, and the processor is at rest
C9_Witness ==
  /\ Len(dispatched) = MaxJobs
  /\ throttled # {}
  /\ \E j \in JobIds : transportResult[j] = "threw"
  /\ \A j \in JobIds : transportResult[j] # "pending"
  /\ acts = {}
  /\ timers = <<>>

\* C10: gameNeedsRefresh answers true whenever the games table has no row for the id.
C10_MissingIsStale ==
  (answer.id \in GameIds /\ ~answer.exists) => answer.result

\* C11: for a game that has a record, gameNeedsRefresh answers true exactly when the
\* clock is past last_updated + ttl; so it is false right after saveGame and stays
\* false up to and including last_updated + ttl.
C11_StaleExactlyPastTtl ==
  (answer.id \in GameIds /\ answer.exists) =>
    (answer.result <=> answer.at > answer.last_updated + answer.ttl)

\* C15: a saveUserCollection or savePlays call that fails leaves the users,
\* user_collections and plays tables exactly as they were before the call.
C15_AtomicSave ==
  [][(lastSave'.kind \in {"collection", "plays"} /\ ~lastSave'.ok) =>
       (users' = users /\ user_collections' = user_collections /\ plays' = plays)]_vars

\* a failed save whose statements had already changed rows before the throw
C15_Witness ==
  lastSave.kind \in {"collection", "plays"} /\ ~lastSave.ok /\ lastSave.undone

\* C19: every row that getUserCollection or getUserPlays returns references a game
\* that has a record in the games table.
C19_ReturnedRowsHaveGames ==
  \A r \in returned.rows : games[r.game_id].present

\* a read that returned at least one row
C19_Witness == returned.kind \in {"collection", "plays"} /\ returned.rows # {}

\* the operation that finished last, when it was of the given tool
Finished(tool) == op.pc = "idle" /\ op.tool = tool
\* the game ids of a list of items
IdsOf(items) == {items[i].id : i \in DOMAIN items}

\* C12: a collection sub-fetch never makes more than 3 fetch attempts, and one whose
\* every response was the deferred status ends after exactly 3 attempts as a failure:
\* the collection sync returns false and has written nothing to the store.
C12_DeferredBudget ==
  /\ op.attempts <= maxRetries
  /\ (Finished("get-user-collection") /\ op.attempts > 0 /\ op.allDeferred) =>
       (op.attempts = maxRetries /\ op.subFetch = "failed" /\ op.synced = "false"
        /\ ~op.wrote /\ response.status # "success")

\* a sub-fetch that ended after three deferred responses
C12_Witness ==
  Finished("get-user-collection") /\ op.allDeferred /\ op.attempts = maxRetries

\* C13: get-user-collection never answers a deferral past the retry budget and an
\* upstream error with the same status and message.
C13_DeferredToldFromError ==
  \A a, b \in seen :
    (a.cause = "deferred" /\ b.cause = "error") =>
      (a.status # b.status \/ a.message # b.message)

\* C14: when the fetch of an operation was rejected upstream, the operation answers
\* its caller with an error, not with "not found" and not with rows of the store.
C14_UpstreamFailureSurfaced ==
  (op.pc = "idle" /\ op.cause = "error") =>
    (response.isError /\ response.status = "error")

\* C16: when the store rejected the write of a sync, the sync returns false.
C16_StoreRejectionReported ==
  (op.pc = "idle" /\ op.rejected) => op.synced = "false"

\* C17: after a collection sync that returned true, the user's rows in
\* user_collections are exactly the items of the two sub-fetches.
C17_RowsAreMergedItems ==
  (Finished("get-user-collection") /\ op.synced = "true") =>
    {r.game_id : r \in {c \in user_collections : c.username = op.username}}
      = IdsOf(op.items)

\* C18: after a collection sync that returned true, every game the fetched
\* collection references has a record in the games table.
C18_ReferencedGamesExist ==
  (Finished("get-user-collection") /\ op.synced = "true") =>
    \A id \in IdsOf(op.items) : games[id].present

\* C20: after a hot-list sync that returned true, hot_games holds exactly the
\* entries of that sync, whatever it held before.
C20_HotSnapshotReplaced ==
  (Finished("get-hot-games") /\ op.synced = "true") =>
    hot_games = {[id |-> op.items[i].id, rank |-> op.items[i].rank] : i \in DOMAIN op.items}

\* a second successful hot-list sync whose ids are none of those held before
C20_Witness ==
  /\ Finished("get-hot-games") /\ op.synced = "true"
  /\ op.hotBefore # {}
  /\ {r.id : r \in op.hotBefore} \cap IdsOf(op.items) = {}

\* C29: a collection sub-fetch is re-submitted only after deferred responses: once a
\* fetch of the sub-fetch was rejected upstream, no further fetch of it is in flight.
C29_ErrorNotRetried == op.pc = "collection" => op.allDeferred

\* requests to one endpoint within the trailing window
EndpointRequestsInWindow(endpoint) ==
  Cardinality({i \in DOMAIN api_requests :
                 /\ api_requests[i].endpoint = endpoint
                 /\ api_requests[i].timestamp > now - RATE_LIMIT_WINDOW})

\* C30: at every moment and for each endpoint, the requests to that endpoint
\* dispatched within the trailing RATE_LIMIT_WINDOW seconds number at most
\* MAX_REQUESTS_PER_WINDOW, however the submissions interleave with the dispatcher.
C30_EndpointWindowLimit ==
  \A e \in Endpoints : EndpointRequestsInWindow(e) <= MAX_REQUESTS_PER_WINDOW

\* an endpoint's window is full after a dispatch of this run, and a later job for
\* that endpoint was made to wait
C30_Witness ==
  \E j \in throttled :
    /\ EndpointRequestsInWindow(jobEndpoint[j]) = MAX_REQUESTS_PER_WINDOW
    /\ \E k \in DOMAIN LoggedNow : LoggedNow[k].endpoint = jobEndpoint[j]

\* C23: a saveGame call that repeats the call before it leaves the store as that call
\* left it: the games rows apart from last_updated, and every other table.
C23_SaveGameIdempotent ==
  [][(lastSave.kind = "game" /\ lastSave'.kind = "game" /\ lastSave'.id = lastSave.id) =>
       /\ \A id \in GameIds : /\ games'[id].present = games[id].present
                              /\ games'[id].ttl = games[id].ttl
       /\ users' = users /\ user_collections' = user_collections
       /\ plays' = plays /\ hot_games' = hot_games]_vars

\* the same game was saved twice in a row
C23_Witness == lastSave.kind = "game" /\ lastSave.again

\* C24: a stored play is changed only by a save that contains its play id, so no step
\* removes a stored play id from the plays table.
C24_StoredPlayKept ==
  [][\A r \in plays : \E r2 \in plays' : r2.id = r.id]_vars

SnapshotOf(hotGames) ==
  {[id |-> hotGames[i].id, rank |-> hotGames[i].rank] : i \in DOMAIN hotGames}

\* C21: after saveHotGames returns, with success or with failure, hot_games holds
\* the complete previous snapshot or the complete snapshot of the list given.
C21_HotSnapshotAtomic ==
  [][lastSave'.kind = "hot" =>
       \/ hot_games' = hot_games
       \/ hot_games' = SnapshotOf(lastSave'.hotGames)]_vars

\* C25: when get-similar-games is called for a reference game whose record is past its
\* ttl, the game is refreshed before findSimilarGames runs: the call goes on to the
\* fetch of syncGameDetails and does not answer at once.
C25_StaleReferenceRefreshed ==
  [][(/\ opsStarted' # opsStarted
      /\ op'.tool = "get-similar-games"
      /\ StaleRowFound(games, op'.id, now)) => op'.pc = "thing"]_vars

\* C26: every get-user-collection call that has ended has returned a response of its
\* own whose status is success, queued or error, whatever failed upstream, in the
\* sync or in the store.
C26_CollectionStatus ==
  Finished("get-user-collection") =>
    /\ response.tool = "get-user-collection"
    /\ response.status \in {"success", "queued", "error"}

\* a call whose fetch was rejected upstream has ended with a response
C26_Witness ==
  /\ Finished("get-user-collection")
  /\ op.cause = "error"
  /\ response.status = "queued"

\* a call whose save was rejected by the store has ended with a response
C26_WitnessStore ==
  /\ Finished("get-user-collection")
  /\ op.rejected
  /\ response.status = "success"

\* C28: the sub-fetches of one collection sync are entered in the order boardgame,
\* boardgameexpansion; the second is entered only when the first has ended with its
\* items, and never when the first has failed.
C28_SubFetchOrder ==
  /\ op.order \in {<<>>, <<"boardgame">>, <<"boardgame", "boardgameexpansion">>}
  /\ Len(op.order) = 2 => op.first = "items"
  /\ op.first = "failed" => op.order = <<"boardgame">> /\ op.pc = "idle"
  /\ (op.pc \in {"collection", "backoff"} /\ op.subtype = "boardgame") =>
       op.order = <<"boardgame">> /\ op.first = "none"

\* the expansion sub-fetch is in flight, entered after the first one ended with its items
C28_Witness ==
  /\ op.pc = "collection" /\ op.subtype = "boardgameexpansion"
  /\ op.order = <<"boardgame", "boardgameexpansion">>
  /\ op.first = "items"

\* a sync whose first sub-fetch failed has ended without entering the second
C28_WitnessFailed ==
  /\ Finished("get-user-collection")
  /\ op.first = "failed" /\ op.order = <<"boardgame">>

\* the tools whose sync cascades into single-game refreshes
CascadingTools == {"get-user-plays", "get-hot-games"}

C31_NoLostWakeup ==
  (Len(requestQueue) > 0 /\ ~isProcessingQueue) => timers # <<>>

\* a job waits in the queue, the flag is clear and a restart timer is pending
C31_Witness ==
  /\ Len(requestQueue) > 0
  /\ ~isProcessingQueue
  /\ timers # <<>>

\* a call of syncCollectionType for the given subtype is running
InSubFetch(subtype) == op.pc \in {"collection", "backoff"} /\ op.subtype = subtype

\* C32: a call of syncCollectionType submits at most maxRetries fetches and ends,
\* whatever the fetches settle with: a settled fetch leads to the wait before a
\* retry, with no fetch submitted, or ends the call; and every call ends.
C32_SubFetchTerminates ==
  /\ [](op.attempts <= maxRetries)
  /\ [][op.pc = "collection" =>
          \/ op'.pc = "backoff" /\ op'.attempts = op.attempts /\ op'.subtype = op.subtype
          \/ op'.pc = "idle"
          \/ op'.pc = "collection" /\ op'.subtype # op.subtype /\ op'.attempts = 1]_vars
  /\ \A subtype \in {"boardgame", "boardgameexpansion"} :
       InSubFetch(subtype) ~> ~InSubFetch(subtype)

\* a call that ended with its items on the third fetch, after two that were deferred
\* or rejected
C32_Witness ==
  /\ Finished("get-user-collection")
  /\ op.attempts = maxRetries
  /\ op.subFetch = "items"

\* C33: a collection sync of which a sub-fetch failed writes nothing.  No step of a
\* running collection sync other than the one that ends the second sub-fetch with
\* its items changes users or user_collections, and a sync that ended with a failed
\* sub-fetch has not called saveUserCollection.
C33_FailedSyncWritesNothing ==
  /\ []((Finished("get-user-collection") /\ op.subFetch = "failed") => ~op.wrote)
  /\ [][(op.pc \in {"collection", "backoff"} /\ op'.subFetch # "items") =>
          users' = users /\ user_collections' = user_collections]_vars

\* a sync whose first sub-fetch ended with its items and whose second failed
C33_Witness ==
  /\ Finished("get-user-collection")
  /\ op.first = "items"
  /\ op.subFetch = "failed"

\* C34: within one plays or hot list sync a game id is fetched at most once, so two
\* cascaded refreshes that follow one another are never for the same id.
C34_OneFetchPerGame ==
  [][(op.pc = "pause" /\ op'.pc = "thing") => op'.id # op.id]_vars

\* C35: a saveGame call, also one that replaces the row of a game already stored,
\* leaves the user_collections rows and the plays rows unchanged.
C35_RefreshKeepsReferences ==
  [][lastSave'.kind = "game" =>
       user_collections' = user_collections /\ plays' = plays]_vars

\* C36: a savePlays call leaves the user_collections rows unchanged and a
\* saveUserCollection call leaves the plays rows unchanged.
C36_OtherClassUntouched ==
  [][/\ lastSave'.kind = "plays" => user_collections' = user_collections
     /\ lastSave'.kind = "collection" => plays' = plays]_vars

\* C37: when the fetch of get-game-details or get-similar-games settles without an
\* error and syncGameDetails returns false, the document had no item: no table is
\* written, and the record of the game, its last_updated included, is as before.
C37_NoItemWritesNothing ==
  [][(/\ op.pc = "thing"
      /\ op.tool \in {"get-game-details", "get-similar-games"}
      /\ op'.synced = "false"
      /\ op'.cause # "error") =>
       /\ games' = games
       /\ users' = users /\ user_collections' = user_collections
       /\ plays' = plays /\ hot_games' = hot_games]_vars

\* a forced refresh of a stored game found no item upstream and returned false, the
\* record still carrying its earlier last_updated
C37_Witness ==
  /\ Finished("get-game-details")
  /\ op.synced = "false" /\ op.cause = "none"
  /\ games[op.id].present
  /\ games[op.id].last_updated < now

\* C38: after a collection sync that returned true, the own flag of each stored
\* row of the user is the one upstream reported for an item of that game.
C38_OwnFlagAsUpstream ==
  (Finished("get-user-collection") /\ op.synced = "true") =>
    \A r \in {c \in user_collections : c.username = op.username} :
      \E i \in DOMAIN op.items :
        /\ op.items[i].id = r.game_id
        /\ r.own = (IF op.items[i].status.own THEN 1 ELSE 0)

\* C39: get-game-details called without forceRefresh for a game whose record is
\* within its ttl answers from the store at once and submits no fetch.
C39_FreshAnsweredFromStore ==
  [][(/\ opsStarted' # opsStarted
      /\ op'.tool = "get-game-details" /\ ~op'.forced
      /\ games[op'.id].present
      /\ now <= games[op'.id].last_updated + games[op'.id].ttl) =>
       op'.pc = "idle" /\ response'.status = "game"]_vars

====
